---- MODULE Spec2Model ----
(***************************************************************************)
(* Erasure-code data recovery over two arithmetic domains:                 *)
(*   src/finite.c : integers mod 17, primitive fourth root of unity 4      *)
(*   src/main.c   : complex integers, primitive fourth root of unity i     *)
(* Definitions from finite.c carry the prefix f_, those from main.c the    *)
(* prefix c_ (both files use the same function names).  Arrays of four     *)
(* elements are functions over 0..3, indexed as in the C code.             *)
(***************************************************************************)
EXTENDS Integers, FiniteSets, Sequences, TLC

VARIABLES prog, pc, data_poly, data_eval, erased, zero_poly, zero_poly_eval,
          ez_eval, dz_poly, k, dz_scaled_eval, zero_scaled_eval,
          quotient_eval, recovered_poly, h_fn, h_in, h_out, h_pc

pvars == <<prog, pc, data_poly, data_eval, erased, zero_poly, zero_poly_eval,
           ez_eval, dz_poly, k, dz_scaled_eval, zero_scaled_eval,
           quotient_eval, recovered_poly>>
hvars == <<h_fn, h_in, h_out, h_pc>>
vars == <<pvars, hvars>>

\* A C array or variable that has not been assigned yet (never read).
Unset == <<>>

\* Indices of the four-element arrays.
Idx == 0..3

\* A four-element array literal {a, b, c, d}.
A4(a, b, c, d) ==
    [j \in Idx |-> IF j = 0 THEN a ELSE IF j = 1 THEN b ELSE IF j = 2 THEN c ELSE d]

\* The outcome of a call that may die in assert(): a value, or no value.
Ret(v) == [ok |-> TRUE, val |-> v]
Fail == [ok |-> FALSE, val |-> Unset]

\* An array of outcomes as one outcome: the first failing call ends the program.
Collect(q) ==
    IF \A j \in DOMAIN q : q[j].ok THEN Ret([j \in DOMAIN q |-> q[j].val]) ELSE Fail

(***************************************************************************)
(* src/finite.c : arithmetic mod 17.  All arguments that occur are         *)
(* non-negative, so C's % and TLA+'s % agree.                              *)
(***************************************************************************)
MOD == 17

f_i == 4

f_equal(a, b) == a % MOD = b % MOD

f_neg(a) == MOD - a

f_add(a, b) == (a + b) % MOD

f_sub(a, b) == (a + f_neg(b)) % MOD

f_mul(a, b) == (a * b) % MOD

\* int inv[] of div(), indexed from 0 in C and from 1 here.
f_inv == <<0, 1, 9, 6, 13, 7, 3, 5, 15, 2, 12, 14, 10, 4, 11, 8, 16>>

f_div(a, b) ==
    LET ret == (a * f_inv[(b % MOD) + 1]) % MOD
    IN  IF f_equal(a, f_mul(ret, b)) THEN Ret(ret) ELSE Fail

\* for (int j = 0; j < 4; j++) coeffs[j] = div(coeffs[j], 4);
f_div_each(coeffs, d) == Collect([j \in Idx |-> f_div(coeffs[j], d)])

\* eval_from_poly() with the signs of eval[1] and eval[3] exchanged.
f_eval_from_poly_swapped(coeffs) ==
    LET c0_p_c2 == f_add(coeffs[0], coeffs[2])
        c0_m_c2 == f_sub(coeffs[0], coeffs[2])
        c1_p_c3 == f_add(coeffs[1], coeffs[3])
        c1_m_c3 == f_sub(coeffs[1], coeffs[3])
    IN  A4(f_add(c0_p_c2, c1_p_c3),
           f_sub(c0_m_c2, f_mul(f_i, c1_m_c3)),
           f_sub(c0_p_c2, c1_p_c3),
           f_add(c0_m_c2, f_mul(f_i, c1_m_c3)))

f_eval_from_poly(coeffs) ==
    LET c0_p_c2 == f_add(coeffs[0], coeffs[2])
        c0_m_c2 == f_sub(coeffs[0], coeffs[2])
        c1_p_c3 == f_add(coeffs[1], coeffs[3])
        c1_m_c3 == f_sub(coeffs[1], coeffs[3])
    IN  A4(f_add(c0_p_c2, c1_p_c3),
           f_add(c0_m_c2, f_mul(f_i, c1_m_c3)),
           f_sub(c0_p_c2, c1_p_c3),
           f_sub(c0_m_c2, f_mul(f_i, c1_m_c3)))

f_poly_from_eval(eval) ==
    LET c0_p_c2 == f_add(eval[0], eval[2])
        c0_m_c2 == f_sub(eval[0], eval[2])
        c1_p_c3 == f_add(eval[1], eval[3])
        c1_m_c3 == f_sub(eval[1], eval[3])
        coeffs == A4(f_add(c0_p_c2, c1_p_c3),
                     f_sub(c0_m_c2, f_mul(f_i, c1_m_c3)),
                     f_sub(c0_p_c2, c1_p_c3),
                     f_add(c0_m_c2, f_mul(f_i, c1_m_c3)))
    IN  f_div_each(coeffs, 4)

\* scale() with the second update of fac left out.
f_scale_stale_fac(a, kk) ==
    LET fac1 == kk
        fac2 == f_mul(fac1, kk)
    IN  A4(a[0], f_mul(a[1], fac1), f_mul(a[2], fac2), f_mul(a[3], fac2))

f_scale(a, kk) ==
    LET fac1 == kk
        fac2 == f_mul(fac1, kk)
        fac3 == f_mul(fac2, kk)
    IN  A4(a[0], f_mul(a[1], fac1), f_mul(a[2], fac2), f_mul(a[3], fac3))

f_unscale(a, kk) ==
    LET fac1 == kk
        fac2 == f_mul(fac1, kk)
        fac3 == f_mul(fac2, kk)
    IN  Collect(A4(Ret(a[0]), f_div(a[1], fac1), f_div(a[2], fac2), f_div(a[3], fac3)))

(***************************************************************************)
(* src/main.c : complex integers.  The values that occur stay far inside   *)
(* the range of int, so no operation overflows.                            *)
(***************************************************************************)
c_new_complex(re, im) == [re |-> re, im |-> im]

c_zero == c_new_complex(0, 0)

c_i == c_new_complex(0, 1)

c_two == c_new_complex(2, 0)

c_four == c_new_complex(4, 0)

c_equal(a, b) == a.re = b.re /\ a.im = b.im

c_cconj(a) == c_new_complex(a.re, -a.im)

c_add(a, b) == c_new_complex(a.re + b.re, a.im + b.im)

c_sub(a, b) == c_new_complex(a.re - b.re, a.im - b.im)

\* mul() with the sign of the imaginary product wrong.
c_mul_sign(a, b) == c_new_complex(a.re * b.re + a.im * b.im, a.re * b.im + a.im * b.re)

c_mul(a, b) == c_new_complex(a.re * b.re - a.im * b.im, a.re * b.im + a.im * b.re)

\* C's integer division n / d for d # 0: the quotient truncated towards zero.
c_quot(n, d) ==
    LET an == IF n < 0 THEN -n ELSE n
        ad == IF d < 0 THEN -d ELSE d
    IN  IF (n < 0) = (d < 0) THEN an \div ad ELSE -(an \div ad)

\* What a build does on an integer division by zero (undefined behaviour):
\* the instruction traps (x86), or it yields 0 (ARM) and the program goes on.
\* Every divisor the programs reach is non-zero, where z plays no part.
DivZero == {"trap", "zero"}

\* div() built with NDEBUG: the assertion is compiled out.
c_div_unchecked(a, b, z) ==
    LET b_conj == c_cconj(b)
        ab_conj == c_mul(a, b_conj)
        bb_conj == c_mul(b, b_conj)
    IN  IF bb_conj.re = 0
        THEN IF z = "trap" THEN Fail ELSE Ret(c_new_complex(0, 0))
        ELSE Ret(c_new_complex(c_quot(ab_conj.re, bb_conj.re),
                               c_quot(ab_conj.im, bb_conj.re)))

\* div() on a build whose division by zero behaves as z.
c_div(a, b, z) ==
    LET b_conj == c_cconj(b)
        ab_conj == c_mul(a, b_conj)
        bb_conj == c_mul(b, b_conj)
    IN  IF bb_conj.re = 0 /\ z = "trap"
        THEN Fail
        ELSE LET ret == IF bb_conj.re = 0
                        THEN c_new_complex(0, 0)
                        ELSE c_new_complex(c_quot(ab_conj.re, bb_conj.re),
                                           c_quot(ab_conj.im, bb_conj.re))
             IN  IF c_equal(a, c_mul(ret, b)) THEN Ret(ret) ELSE Fail

\* for (int j = 0; j < 4; j++) coeffs[j] = div(coeffs[j], four);
c_div_each(coeffs, d, z) == Collect([j \in Idx |-> c_div(coeffs[j], d, z)])

c_eval_from_poly(coeffs) ==
    LET c0_p_c2 == c_add(coeffs[0], coeffs[2])
        c0_m_c2 == c_sub(coeffs[0], coeffs[2])
        c1_p_c3 == c_add(coeffs[1], coeffs[3])
        c1_m_c3 == c_sub(coeffs[1], coeffs[3])
    IN  A4(c_add(c0_p_c2, c1_p_c3),
           c_add(c0_m_c2, c_mul(c_i, c1_m_c3)),
           c_sub(c0_p_c2, c1_p_c3),
           c_sub(c0_m_c2, c_mul(c_i, c1_m_c3)))

\* poly_from_eval() with the butterfly of eval_from_poly (the signs of coeffs[1]
\* and coeffs[3] not exchanged).
c_poly_from_eval_forward(eval, z) == c_div_each(c_eval_from_poly(eval), c_four, z)

c_poly_from_eval(eval, z) ==
    LET c0_p_c2 == c_add(eval[0], eval[2])
        c0_m_c2 == c_sub(eval[0], eval[2])
        c1_p_c3 == c_add(eval[1], eval[3])
        c1_m_c3 == c_sub(eval[1], eval[3])
        coeffs == A4(c_add(c0_p_c2, c1_p_c3),
                     c_sub(c0_m_c2, c_mul(c_i, c1_m_c3)),
                     c_sub(c0_p_c2, c1_p_c3),
                     c_add(c0_m_c2, c_mul(c_i, c1_m_c3)))
    IN  c_div_each(coeffs, c_four, z)

c_scale(a, kk) ==
    LET fac1 == kk
        fac2 == c_mul(fac1, kk)
        fac3 == c_mul(fac2, kk)
    IN  A4(a[0], c_mul(a[1], fac1), c_mul(a[2], fac2), c_mul(a[3], fac3))

c_unscale(a, kk, z) ==
    LET fac1 == kk
        fac2 == c_mul(fac1, kk)
        fac3 == c_mul(fac2, kk)
    IN  Collect(A4(Ret(a[0]), c_div(a[1], fac1, z), c_div(a[2], fac2, z),
                   c_div(a[3], fac3, z)))

(***************************************************************************)
(* The two programs side by side: prog is "finite" (src/finite.c) or       *)
(* "main" (src/main.c), and each step of main() calls that file's          *)
(* functions.                                                              *)
(***************************************************************************)
Progs == {"finite", "main"}

Zero(p) == IF p = "finite" THEN 0 ELSE c_zero

One(p) == IF p = "finite" THEN 1 ELSE c_new_complex(1, 0)

Root(p) == IF p = "finite" THEN f_i ELSE c_i

Equal(p, a, b) == IF p = "finite" THEN f_equal(a, b) ELSE c_equal(a, b)

Sub(p, a, b) == IF p = "finite" THEN f_sub(a, b) ELSE c_sub(a, b)

Mul(p, a, b) == IF p = "finite" THEN f_mul(a, b) ELSE c_mul(a, b)

Div(p, a, b, z) == IF p = "finite" THEN f_div(a, b) ELSE c_div(a, b, z)

EvalFromPoly(p, coeffs) ==
    IF p = "finite" THEN f_eval_from_poly(coeffs) ELSE c_eval_from_poly(coeffs)

PolyFromEval(p, eval, z) ==
    IF p = "finite" THEN f_poly_from_eval(eval) ELSE c_poly_from_eval(eval, z)

Scale(p, a, kk) == IF p = "finite" THEN f_scale(a, kk) ELSE c_scale(a, kk)

Unscale(p, a, kk, z) == IF p = "finite" THEN f_unscale(a, kk) ELSE c_unscale(a, kk, z)

\* r^j for the file's fourth root of unity r: [1, 4, 16, 13] and [1, i, -1, -i].
RECURSIVE RootPow(_, _)
RootPow(p, j) == IF j = 0 THEN One(p) ELSE Mul(p, Root(p), RootPow(p, j - 1))

\* The coefficients of poly(x) * (x - root), in the four slots of the array.
MulLinear(p, poly, root) ==
    [j \in Idx |-> Sub(p, IF j = 0 THEN Zero(p) ELSE poly[j - 1], Mul(p, root, poly[j]))]

\* main()'s zero_poly: the product of (x - r^j) over the missing indices j
\* (hand-expanded in the source for the indices {1, 2}).
RECURSIVE ZeroPolyFrom(_, _, _)
ZeroPolyFrom(p, E, j) ==
    IF j > 3
    THEN A4(One(p), Zero(p), Zero(p), Zero(p))
    ELSE IF j \in E
         THEN MulLinear(p, ZeroPolyFrom(p, E, j + 1), RootPow(p, j))
         ELSE ZeroPolyFrom(p, E, j + 1)

ZeroPoly(p, E) == ZeroPolyFrom(p, E, 0)

\* "Lose part of the data": the missing samples are overwritten with zero.
Lose(p, eval, E) == [j \in Idx |-> IF j \in E THEN Zero(p) ELSE eval[j]]

\* The masking loop with the samples added to the zero polynomial's evaluations.
MaskEvalAdd(p, eval, zeval) ==
    [j \in Idx |-> IF p = "finite" THEN f_add(eval[j], zeval[j]) ELSE c_add(eval[j], zeval[j])]

\* The loop that creates (E * Z)(r^j) for each j.
MaskEval(p, eval, zeval) == [j \in Idx |-> Mul(p, eval[j], zeval[j])]

\* The loop that divides pointwise.
DividePointwise(p, num, den, z) == Collect([j \in Idx |-> Div(p, num[j], den[j], z)])

\* main() from the masking loop to the end, as a function of the samples it is
\* given, the zero polynomial and the scale factor: each step runs unless the
\* step before it died in assert().
AfterInterpolateQuotient(p, rs, kk, z) ==
    IF rs.ok THEN Unscale(p, rs.val, kk, z) ELSE Fail

AfterDivide(p, q, kk, z) ==
    IF q.ok THEN AfterInterpolateQuotient(p, PolyFromEval(p, q.val, z), kk, z) ELSE Fail

AfterInterpolate(p, dz, zpoly, kk, z) ==
    IF dz.ok
    THEN AfterDivide(p, DividePointwise(p, EvalFromPoly(p, Scale(p, dz.val, kk)),
                                        EvalFromPoly(p, Scale(p, zpoly, kk)), z), kk, z)
    ELSE Fail

RecoverFrom(p, eval, zpoly, kk, z) ==
    AfterInterpolate(p, PolyFromEval(p, MaskEval(p, eval, EvalFromPoly(p, zpoly)), z),
                     zpoly, kk, z)

(***************************************************************************)
(* Inputs.  finite.c: every data pair of the field, every set of at most   *)
(* three missing samples (a zero polynomial for four does not fit the      *)
(* array), every scale factor of the field.  main.c: data pairs of a       *)
(* bounded range together with the driver's own [5, 7], scale factor 2.    *)
(***************************************************************************)
CMax == 1

CNums == {c_new_complex(re, im) : re \in -CMax..CMax, im \in -CMax..CMax}

F == 0..(MOD - 1)

DataPolys(p) ==
    IF p = "finite"
    THEN {A4(d0, d1, 0, 0) : d0 \in F, d1 \in F}
    ELSE {A4(d0, d1, c_zero, c_zero) : d0 \in CNums, d1 \in CNums}
         \cup {A4(c_new_complex(5, 0), c_new_complex(7, 0), c_zero, c_zero)}

Patterns == {E \in SUBSET Idx : Cardinality(E) <= 3}

ScaleFactors(p) == IF p = "finite" THEN F ELSE {c_two}

PipelineIdle ==
    /\ prog = Unset /\ pc = "idle" /\ data_poly = Unset /\ data_eval = Unset
    /\ erased = Unset /\ zero_poly = Unset /\ zero_poly_eval = Unset
    /\ ez_eval = Unset /\ dz_poly = Unset /\ k = Unset /\ dz_scaled_eval = Unset
    /\ zero_scaled_eval = Unset /\ quotient_eval = Unset /\ recovered_poly = Unset

HarnessIdle == h_fn = "none" /\ h_in = Unset /\ h_out = Unset /\ h_pc = "idle"

Start(progs) ==
    /\ prog \in progs
    /\ data_poly \in DataPolys(prog)
    /\ pc = "start"
    /\ data_eval = Unset /\ erased = Unset /\ zero_poly = Unset
    /\ zero_poly_eval = Unset /\ ez_eval = Unset /\ dz_poly = Unset /\ k = Unset
    /\ dz_scaled_eval = Unset /\ zero_scaled_eval = Unset
    /\ quotient_eval = Unset /\ recovered_poly = Unset
    /\ HarnessIdle

Init == Start(Progs)

\* eval_from_poly(data_eval, data_poly)
Encode ==
    /\ pc = "start"
    /\ data_eval' = EvalFromPoly(prog, data_poly)
    /\ pc' = "encoded"
    /\ UNCHANGED <<prog, data_poly, erased, zero_poly, zero_poly_eval, ez_eval, dz_poly,
                   k, dz_scaled_eval, zero_scaled_eval, quotient_eval, recovered_poly,
                   hvars>>

\* data_eval[1] = 0; data_eval[2] = 0;  ("could be any two elements")
Erase ==
    /\ pc = "encoded"
    /\ \E E \in Patterns :
          /\ erased' = E
          /\ data_eval' = Lose(prog, data_eval, E)
    /\ pc' = "erased"
    /\ UNCHANGED <<prog, data_poly, zero_poly, zero_poly_eval, ez_eval, dz_poly,
                   k, dz_scaled_eval, zero_scaled_eval, quotient_eval, recovered_poly,
                   hvars>>

\* zero_poly[] = ...; eval_from_poly(zero_poly_eval, zero_poly)
BuildZeroPoly ==
    /\ pc = "erased"
    /\ zero_poly' = ZeroPoly(prog, erased)
    /\ zero_poly_eval' = EvalFromPoly(prog, zero_poly')
    /\ pc' = "zero_eval"
    /\ UNCHANGED <<prog, data_poly, data_eval, erased, ez_eval, dz_poly,
                   k, dz_scaled_eval, zero_scaled_eval, quotient_eval, recovered_poly,
                   hvars>>

\* ez_eval[j] = mul(data_eval[j], zero_poly_eval[j])
Mask ==
    /\ pc = "zero_eval"
    /\ ez_eval' = MaskEval(prog, data_eval, zero_poly_eval)
    /\ pc' = "masked"
    /\ UNCHANGED <<prog, data_poly, data_eval, erased, zero_poly, zero_poly_eval, dz_poly,
                   k, dz_scaled_eval, zero_scaled_eval, quotient_eval, recovered_poly,
                   hvars>>

\* poly_from_eval(dz_poly, ez_eval)
Interpolate ==
    /\ pc = "masked"
    /\ \E z \in DivZero :
          LET r == PolyFromEval(prog, ez_eval, z)
          IN  /\ dz_poly' = r.val
              /\ pc' = IF r.ok THEN "interpolated" ELSE "abort_interpolate"
    /\ UNCHANGED <<prog, data_poly, data_eval, erased, zero_poly, zero_poly_eval, ez_eval,
                   k, dz_scaled_eval, zero_scaled_eval, quotient_eval, recovered_poly,
                   hvars>>

\* scale(dz_poly, 2); scale(zero_poly, 2);  ("any scale factor is ok, as long as ...")
ScaleBoth ==
    /\ pc = "interpolated"
    /\ \E kk \in ScaleFactors(prog) :
          /\ k' = kk
          /\ dz_poly' = Scale(prog, dz_poly, kk)
          /\ zero_poly' = Scale(prog, zero_poly, kk)
    /\ pc' = "scaled"
    /\ UNCHANGED <<prog, data_poly, data_eval, erased, zero_poly_eval, ez_eval,
                   dz_scaled_eval, zero_scaled_eval, quotient_eval, recovered_poly,
                   hvars>>

\* eval_from_poly(dz_scaled_eval, dz_poly); eval_from_poly(zero_scaled_eval, zero_poly)
EvalScaled ==
    /\ pc = "scaled"
    /\ dz_scaled_eval' = EvalFromPoly(prog, dz_poly)
    /\ zero_scaled_eval' = EvalFromPoly(prog, zero_poly)
    /\ pc' = "scaled_eval"
    /\ UNCHANGED <<prog, data_poly, data_eval, erased, zero_poly, zero_poly_eval, ez_eval,
                   dz_poly, k, quotient_eval, recovered_poly, hvars>>

\* quotient_eval[j] = div(dz_scaled_eval[j], zero_scaled_eval[j])
Divide ==
    /\ pc = "scaled_eval"
    /\ \E z \in DivZero :
          LET r == DividePointwise(prog, dz_scaled_eval, zero_scaled_eval, z)
          IN  /\ quotient_eval' = r.val
              /\ pc' = IF r.ok THEN "divided" ELSE "abort_divide"
    /\ UNCHANGED <<prog, data_poly, data_eval, erased, zero_poly, zero_poly_eval, ez_eval,
                   dz_poly, k, dz_scaled_eval, zero_scaled_eval, recovered_poly, hvars>>

\* poly_from_eval(recovered_poly, quotient_eval)
InterpolateQuotient ==
    /\ pc = "divided"
    /\ \E z \in DivZero :
          LET r == PolyFromEval(prog, quotient_eval, z)
          IN  /\ recovered_poly' = r.val
              /\ pc' = IF r.ok THEN "recovered_scaled" ELSE "abort_interpolate_quotient"
    /\ UNCHANGED <<prog, data_poly, data_eval, erased, zero_poly, zero_poly_eval, ez_eval,
                   dz_poly, k, dz_scaled_eval, zero_scaled_eval, quotient_eval, hvars>>

\* unscale(recovered_poly, 2)
UnscaleRecovered ==
    /\ pc = "recovered_scaled"
    /\ \E z \in DivZero :
          LET r == Unscale(prog, recovered_poly, k, z)
          IN  /\ recovered_poly' = r.val
              /\ pc' = IF r.ok THEN "done" ELSE "abort_unscale"
    /\ UNCHANGED <<prog, data_poly, data_eval, erased, zero_poly, zero_poly_eval, ez_eval,
                   dz_poly, k, dz_scaled_eval, zero_scaled_eval, quotient_eval, hvars>>

Next ==
    \/ Encode
    \/ Erase
    \/ BuildZeroPoly
    \/ Mask
    \/ Interpolate
    \/ ScaleBoth
    \/ EvalScaled
    \/ Divide
    \/ InterpolateQuotient
    \/ UnscaleRecovered

Spec == Init /\ [][Next]_vars

\* finite.c alone, and main.c alone.
InitFinite == Start({"finite"})

SpecFinite == InitFinite /\ [][Next]_vars

InitMain == Start({"main"})

SpecMain == InitMain /\ [][Next]_vars

(***************************************************************************)
(* Single calls of the functions, on inputs drawn from bounded sets:       *)
(* h_fn is the function called, h_in its arguments, h_out its outcome.     *)
(***************************************************************************)
HarnessInit(fns, inputs) ==
    /\ PipelineIdle
    /\ h_fn \in fns
    /\ h_in \in inputs
    /\ h_out = Unset
    /\ h_pc = "call"

\* finite.c: neg, add, sub, mul, div on reduced residues.
FieldFns == {"neg", "add", "sub", "mul", "div"}

InitField == HarnessInit(FieldFns, F \X F)

CallNeg ==
    /\ h_pc = "call"
    /\ h_fn = "neg"
    /\ h_out' = Ret(f_neg(h_in[1]))
    /\ h_pc' = "returned"
    /\ UNCHANGED <<pvars, h_fn, h_in>>

CallAdd ==
    /\ h_pc = "call"
    /\ h_fn = "add"
    /\ h_out' = Ret(f_add(h_in[1], h_in[2]))
    /\ h_pc' = "returned"
    /\ UNCHANGED <<pvars, h_fn, h_in>>

CallSub ==
    /\ h_pc = "call"
    /\ h_fn = "sub"
    /\ h_out' = Ret(f_sub(h_in[1], h_in[2]))
    /\ h_pc' = "returned"
    /\ UNCHANGED <<pvars, h_fn, h_in>>

CallMul ==
    /\ h_pc = "call"
    /\ h_fn = "mul"
    /\ h_out' = Ret(f_mul(h_in[1], h_in[2]))
    /\ h_pc' = "returned"
    /\ UNCHANGED <<pvars, h_fn, h_in>>

CallDiv ==
    /\ h_pc = "call"
    /\ h_fn = "div"
    /\ h_out' = f_div(h_in[1], h_in[2])
    /\ h_pc' = "returned"
    /\ UNCHANGED <<pvars, h_fn, h_in>>

NextField == CallNeg \/ CallAdd \/ CallSub \/ CallMul \/ CallDiv

SpecField == InitField /\ [][NextField]_vars

\* finite.c: scale on polynomials with small coefficients and every non-zero k.
MaxCoef == 2

InitScale ==
    HarnessInit({"scale"},
                {<<A4(a0, a1, a2, a3), kk>> :
                    a0 \in 0..MaxCoef, a1 \in 0..MaxCoef, a2 \in 0..MaxCoef,
                    a3 \in 0..MaxCoef, kk \in F \ {0}})

CallScale ==
    /\ h_pc = "call"
    /\ h_fn = "scale"
    /\ h_out' = Ret(f_scale(h_in[1], h_in[2]))
    /\ h_pc' = "returned"
    /\ UNCHANGED <<pvars, h_fn, h_in>>

NextScale == CallScale

SpecScale == InitScale /\ [][NextScale]_vars

\* main.c: div on complex integers of a bounded range.
DMax == 3

DNums == {c_new_complex(re, im) : re \in -DMax..DMax, im \in -DMax..DMax}

InitDiv == HarnessInit({"c_div"}, DNums \X DNums)

CallCDiv ==
    /\ h_pc = "call"
    /\ h_fn = "c_div"
    /\ \E z \in DivZero : h_out' = c_div(h_in[1], h_in[2], z)
    /\ h_pc' = "returned"
    /\ UNCHANGED <<pvars, h_fn, h_in>>

NextDiv == CallCDiv

SpecDiv == InitDiv /\ [][NextDiv]_vars

\* Both files: eval_from_poly, then poly_from_eval on its result.  finite.c: every
\* polynomial of the field.  main.c: the polynomials whose eight integer parts have
\* absolute values that sum to at most MaxWeight.
MaxWeight == 5

Abs(n) == IF n < 0 THEN -n ELSE n

\* The integer sequences of length n with absolute values summing to at most w.
RECURSIVE Weighted(_, _)
Weighted(n, w) ==
    IF n = 0
    THEN {<<>>}
    ELSE UNION {{<<v>> \o r : r \in Weighted(n - 1, w - Abs(v))} : v \in -w..w}

FPolys(vals) == {A4(a0, a1, a2, a3) : a0 \in vals, a1 \in vals, a2 \in vals, a3 \in vals}

CPolys(w) ==
    {A4(c_new_complex(s[1], s[2]), c_new_complex(s[3], s[4]),
        c_new_complex(s[5], s[6]), c_new_complex(s[7], s[8])) : s \in Weighted(8, w)}

InitTransform ==
    \/ HarnessInit({"finite"}, FPolys(F))
    \/ HarnessInit({"main"}, CPolys(MaxWeight))

CallEvalFromPoly ==
    /\ h_pc = "call"
    /\ h_fn \in Progs
    /\ h_out' = Ret(EvalFromPoly(h_fn, h_in))
    /\ h_pc' = "evaluated"
    /\ UNCHANGED <<pvars, h_fn, h_in>>

CallPolyFromEval ==
    /\ h_pc = "evaluated"
    /\ h_fn \in Progs
    /\ \E z \in DivZero : h_out' = PolyFromEval(h_fn, h_out.val, z)
    /\ h_pc' = "returned"
    /\ UNCHANGED <<pvars, h_fn, h_in>>

NextTransform == CallEvalFromPoly \/ CallPolyFromEval

SpecTransform == InitTransform /\ [][NextTransform]_vars

(***************************************************************************)
(* Where main() stands.                                                    *)
(***************************************************************************)
AbortPcs == {"abort_interpolate", "abort_divide", "abort_interpolate_quotient",
             "abort_unscale"}

\* The positions at which the set of missing samples has been chosen.
ErasedPcs == {"erased", "zero_eval", "masked", "interpolated", "scaled", "scaled_eval",
              "divided", "recovered_scaled", "done"} \cup AbortPcs

\* The positions at which zero_poly_eval holds the zero polynomial's evaluations.
ZeroEvalPcs == ErasedPcs \ {"erased"}

\* The positions at which ez_eval has been computed.
MaskedPcs == ZeroEvalPcs \ {"zero_eval"}

\* The positions at which the scale factor has been chosen.
ScaledPcs == {"scaled", "scaled_eval", "divided", "recovered_scaled", "done",
              "abort_divide", "abort_interpolate_quotient", "abort_unscale"}

\* The positions past the pointwise division.
DividedPcs == {"divided", "recovered_scaled", "done", "abort_interpolate_quotient",
               "abort_unscale"}

\* The roots of unity of finite.c: {1, 4, 16, 13}.
FRoots == {RootPow("finite", j) : j \in Idx}

\* A scale factor the source's comment allows: not a root of unity, not zero.
GoodScale(kk) == kk # 0 /\ kk \notin FRoots

\* C1: in finite.c, for every data pair, every set of at most two missing samples
\* and every scale factor that is neither zero nor a root of unity, no assertion of
\* div fails and the program ends with recovered_poly equal to data_poly; the zero
\* polynomial for the missing samples {1, 2} is [13, 14, 1, 0].
C1_FiniteRecovery ==
    /\ (prog = "finite" /\ pc \in ZeroEvalPcs \ ScaledPcs /\ erased = {1, 2})
          => zero_poly = A4(13, 14, 1, 0)
    /\ (prog = "finite" /\ pc \in ErasedPcs /\ Cardinality(erased) <= 2)
          => /\ pc # "abort_interpolate"
             /\ (pc \in ScaledPcs /\ GoodScale(k))
                   => /\ pc \notin AbortPcs
                      /\ pc = "done" => recovered_poly = data_poly

C1_Witness ==
    /\ prog = "finite" /\ pc = "done"
    /\ data_poly = A4(5, 7, 0, 0) /\ erased = {1, 2} /\ k = 2
    /\ recovered_poly = A4(5, 7, 0, 0)

\* C2: in main.c, for every data pair of the bounded range (and the driver's
\* [5, 7]), every set of at most two missing samples and scale factor 2, every
\* division is exact (no assertion fails) and the program ends with recovered_poly
\* equal to data_poly; the zero polynomial for the missing samples {1, 2} is
\* [-i, 1 - i, 1, 0].
C2_ComplexRecovery ==
    /\ (prog = "main" /\ pc \in ZeroEvalPcs \ ScaledPcs /\ erased = {1, 2})
          => zero_poly = A4(c_new_complex(0, -1), c_new_complex(1, -1),
                            c_new_complex(1, 0), c_new_complex(0, 0))
    /\ (prog = "main" /\ pc \in ErasedPcs /\ Cardinality(erased) <= 2)
          => /\ pc \notin AbortPcs
             /\ pc = "done" => recovered_poly = data_poly

C2_Witness ==
    /\ prog = "main" /\ pc = "done"
    /\ data_poly = A4(c_new_complex(5, 0), c_new_complex(7, 0), c_zero, c_zero)
    /\ erased = {1, 2} /\ k = c_two
    /\ recovered_poly = A4(c_new_complex(5, 0), c_new_complex(7, 0), c_zero, c_zero)

\* C3: for every polynomial p of either file, poly_from_eval on the result of
\* eval_from_poly(p) fails no assertion and returns p, coefficient for coefficient.
C3_RoundTrip ==
    h_pc = "returned" => (h_out.ok /\ h_out.val = h_in)

C3_Witness ==
    /\ h_pc = "returned" /\ h_fn = "main" /\ h_out.ok
    /\ h_in = A4(c_new_complex(1, -1), c_i, c_new_complex(-1, 0), c_new_complex(0, 1))

\* C4: in finite.c, with one or two samples missing and a scale factor that is a
\* root of unity, the pointwise division fails an assertion: the program never
\* gets past it.
C4_BadScaleReported ==
    (prog = "finite" /\ pc \in ScaledPcs /\ Cardinality(erased) \in {1, 2} /\ k \in FRoots)
        => pc \notin DividedPcs

\* C5: in finite.c, with three samples missing and a scale factor that is neither
\* zero nor a root of unity, the program never ends with recovered_poly different
\* from data_poly.
C5_NoSilentWrongOutput ==
    (prog = "finite" /\ pc = "done" /\ Cardinality(erased) = 3 /\ GoodScale(k))
        => recovered_poly = data_poly

\* The value of the polynomial a at the point x, mod 17.
PolyAt(a, x) == f_add(a[0], f_mul(x, f_add(a[1], f_mul(x, f_add(a[2], f_mul(x, a[3]))))))

\* C6: in finite.c, for every polynomial p, non-zero k and point x, the polynomial
\* q left by scale(p, k) satisfies q(x) = p(x / k).
C6_ScaleMeaning ==
    (h_pc = "returned" /\ h_fn = "scale")
        => \A x \in F : PolyAt(h_out.val, x) = PolyAt(h_in[1], f_div(x, h_in[2]).val)

\* C7: in both files, for every set of at most two missing samples, the evaluation
\* of the zero polynomial equals zero at exactly the missing indices.
C7_ZeroPolyRoots ==
    (pc \in ZeroEvalPcs /\ Cardinality(erased) <= 2)
        => \A j \in Idx : Equal(prog, zero_poly_eval[j], Zero(prog)) <=> j \in erased

C7_Witness ==
    /\ pc = "zero_eval" /\ prog = "finite" /\ erased = {1, 2}
    /\ zero_poly = A4(13, 14, 1, 0)
    /\ zero_poly_eval[1] = 0 /\ zero_poly_eval[2] = 0
    /\ zero_poly_eval[0] # 0 /\ zero_poly_eval[3] # 0

\* The true quotient a / b of complex integers, b # 0, has integer parts.
IntegralQuotient(a, b) ==
    LET n2 == b.re * b.re + b.im * b.im
    IN  /\ (a.re * b.re + a.im * b.im) % n2 = 0
        /\ (a.im * b.re - a.re * b.im) % n2 = 0

\* C8: in main.c, for complex integers a and b # 0 whose true quotient does not
\* have integer real and imaginary parts, div(a, b) fails its assertion and
\* returns no value.
C8_InexactDivFails ==
    (h_pc = "returned" /\ h_fn = "c_div" /\ ~c_equal(h_in[2], c_zero)
        /\ ~IntegralQuotient(h_in[1], h_in[2]))
        => ~h_out.ok

C8_Witness ==
    /\ h_pc = "returned" /\ h_fn = "c_div" /\ ~h_out.ok
    /\ h_in = <<c_new_complex(3, 1), c_new_complex(2, 0)>>
    /\ ~IntegralQuotient(h_in[1], h_in[2])

\* C9: in finite.c, for arguments in [0, 17), every value returned by add, sub,
\* neg, mul and div lies in [0, 17).
C9_CanonicalResidues ==
    (h_pc = "returned" /\ h_fn \in FieldFns /\ h_out.ok) => h_out.val \in F

\* The values a run may have stored at the missing indices instead of zero.
MaxPlaceholder == 1

Placeholders == 0..MaxPlaceholder

\* data_eval with the values ph stored at the missing indices.
WithPlaceholders(ph) == [j \in Idx |-> IF j \in erased THEN ph[j] ELSE data_eval[j]]

\* The run that stores ph at the missing indices ends as this one did.
SameRecovery(zpoly, ph) ==
    RecoverFrom(prog, WithPlaceholders(ph), zpoly, k, "trap") = Ret(recovered_poly)

SameRecoveries(zpoly) == \A ph \in [erased -> Placeholders] : SameRecovery(zpoly, ph)

\* ez is, index by index, the product of the evaluations d and zeval.
IsProduct(ez, d, zeval) == \A j \in Idx : ez[j] = (d[j] * zeval[j]) % MOD

\* C10: in finite.c, with at most two samples missing, ez_eval is zero at every
\* missing index and equals the evaluation of D * Z at every index, and it is the
\* same whatever values are stored at the missing indices of data_eval; with a
\* scale factor that is neither zero nor a root of unity, so is the recovered
\* polynomial.
C10_PlaceholderIndependence ==
    (prog = "finite" /\ pc \in MaskedPcs /\ Cardinality(erased) <= 2)
        => /\ \A j \in erased : ez_eval[j] = 0
           /\ IsProduct(ez_eval, f_eval_from_poly(data_poly), zero_poly_eval)
           /\ pc = "masked"
                 => \A ph \in [erased -> F] :
                       MaskEval(prog, WithPlaceholders(ph), zero_poly_eval) = ez_eval
           /\ (pc = "done" /\ GoodScale(k)) => SameRecoveries(ZeroPoly(prog, erased))

C10_Witness ==
    /\ prog = "finite" /\ pc = "done" /\ erased = {1, 2} /\ k = 2
    /\ data_poly = A4(5, 7, 0, 0)
    /\ ez_eval = f_eval_from_poly(A4(14, 8, 1, 7))
    /\ RecoverFrom(prog, A4(data_eval[0], 1, 1, data_eval[3]), A4(13, 14, 1, 0), k, "trap")
          = Ret(A4(5, 7, 0, 0))

====
